---- MODULE Spec2Model ----
(***************************************************************************)
(* Model of the Snap simulator: the arbiter (SnapSimulator, main thread),  *)
(* one player thread per player (Player.run), the per-player turn_queue    *)
(* and the shared snap_queue.                                              *)
(*                                                                         *)
(* A CardStack is a sequence whose LAST element is the top of the stack    *)
(* (list.append / list.pop).  Piles are functions from player id (0-based) *)
(* to such sequences.  None is modelled as the empty sequence <<>>.        *)
(***************************************************************************)
EXTENDS Integers, Sequences, FiniteSets, TLC

VARIABLES
    pc,                      \* position of the main thread inside SnapSimulator.run
    num_players,             \* config.num_players
    turn_count,              \* SnapSimulator.turn_count
    player_card_up_piles,    \* SnapSimulator.player_card_up_piles
    player_card_down_piles,  \* SnapSimulator.player_card_down_piles
    still_in_game,           \* Player.still_in_game of every player
    turn_queue,              \* Player.turn_queue of every player
    snap_queue,              \* SnapSimulator.snap_queue (shared by all players)
    cards,                   \* play_turn's local 'cards' (dict player id -> Card)
    responses,               \* gather_responses' local 'responses'
    player_pc,               \* position of every player thread inside Player.run
    error,                   \* exception raised out of the turn loop ("none" if none)
    interrupted,             \* a KeyboardInterrupt ended the turn loop
    reported,                \* what print_game_over_message printed ("nothing" before)
    dealer_cards,            \* the merged deck after shuffle() (start_game)
    drawn_by,                \* history: player whose down pile the last reveal popped
    active_at_broadcast,     \* history: players with still_in_game when TURN was broadcast
    accepted,                \* history: player whose SNAP the last resolution accepted
    player_to_receive_card,  \* history: who got the card of the last incorrect snap
    out_sent,                \* history: number of PLAYER_OUT messages sent to every player
    snap_decision,           \* history: what should_call_snap last returned to every player
    find_pair_cards,         \* find_pair called alone: its argument player_cards
    find_pair_result,        \* find_pair called alone: << >> before the call, << result >> after
    should_snap_queue,       \* HumanPlayer.should_snap_queue
    human_pc,                \* position of the HumanPlayer thread inside Player.run
    elapsed,                 \* time units the HumanPlayer has waited in should_call_snap
    input_in_window,         \* history: Enter was hit since the HumanPlayer got its TURN
    card_stack,              \* a CardStack used alone: its _cards
    stack_start,             \* history: the CardStack as it was constructed
    stack_ops                \* history: the methods called on it, with what they returned

vars == << pc, num_players, turn_count, player_card_up_piles, player_card_down_piles,
           still_in_game, turn_queue, snap_queue, cards, responses, player_pc,
           error, interrupted, reported, dealer_cards, drawn_by,
           active_at_broadcast, accepted, player_to_receive_card, out_sent,
           snap_decision, find_pair_cards, find_pair_result, should_snap_queue, human_pc,
           elapsed, input_in_window, card_stack, stack_start, stack_ops >>

\* The variables of the simulator and its player threads, those of find_pair called
\* alone, and those of the HumanPlayer.
simulator_vars ==
    << pc, num_players, turn_count, player_card_up_piles, player_card_down_piles,
       still_in_game, turn_queue, snap_queue, cards, responses, player_pc,
       error, interrupted, reported, dealer_cards, drawn_by,
       active_at_broadcast, accepted, player_to_receive_card, out_sent, snap_decision >>

pair_vars == << find_pair_cards, find_pair_result >>

human_vars == << should_snap_queue, human_pc, elapsed, input_in_window >>

\* The variables of a CardStack used alone.
stack_vars == << card_stack, stack_start, stack_ops >>

(***************************************************************************)
(* Bounds of the model and constants of the program.                       *)
(***************************************************************************)
MaxPlayers == 3      \* largest num_players the model runs
MaxTurns == 4        \* turns are played while turn_count <= MaxTurns
MaxStack == 2        \* most cards of a CardStack constructed alone
MaxOps == 3          \* most calls made on a CardStack used alone
MinPlayers == 2
num_decks == 1
NoPlayer == -1       \* "no such player" in the history variables

\* self.players: the ids of the players start_game has created.
Players == DOMAIN player_pc

\* The members of the two enumerations the model plays with, in the order of their
\* declaration: the first two values and the first two suits.
CardValue == << "ACE", "TWO" >>
CardSuit == << "CLUB", "HEART" >>

\* Every member of the two enumerations, in the order of their declaration.
AllCardValue == << "ACE", "TWO", "THREE", "FOUR", "FIVE", "SIX", "SEVEN", "EIGHT", "NINE",
                  "TEN", "JACK", "QUEEN", "KING" >>
AllCardSuit == << "CLUB", "HEART", "SPADE", "DIAMOND" >>

\* Every Card(value, suit) of the whole enumerations.
AllCard == [value : { AllCardValue[k] : k \in 1 .. Len(AllCardValue) },
            suit : { AllCardSuit[k] : k \in 1 .. Len(AllCardSuit) }]

\* peek's None.
NoCard == [value |-> "NONE", suit |-> "NONE"]

\* Every Card(value, suit) the model plays with.
Card == [value : { CardValue[k] : k \in 1 .. Len(CardValue) },
         suit : { CardSuit[k] : k \in 1 .. Len(CardSuit) }]

(***************************************************************************)
(* cards.py                                                                *)
(***************************************************************************)
\* Variant of new_full_deck_of with a slip: the last suit is left out.
new_full_deck_of_short(values, suits) ==
    [k \in 1 .. ((Len(suits) - 1) * Len(values)) |->
        [value |-> values[((k - 1) % Len(values)) + 1],
         suit  |-> suits[((k - 1) \div Len(values)) + 1]]]

\* [Card(value=value, suit=suit) for suit in suits for value in values]: suits
\* outermost, values innermost.
new_full_deck_of(values, suits) ==
    [k \in 1 .. (Len(suits) * Len(values)) |->
        [value |-> values[((k - 1) % Len(values)) + 1],
         suit  |-> suits[((k - 1) \div Len(values)) + 1]]]

\* CardStack.new_full_deck over the members the model plays with.
new_full_deck == new_full_deck_of(CardValue, CardSuit)

\* CardStack.new_full_deck over the whole enumerations.
new_full_deck_all == new_full_deck_of(AllCardValue, AllCardSuit)

\* sum((new_full_deck() for _ in range(n)), start=CardStack())
RECURSIVE merged_decks(_)
merged_decks(n) == IF n = 0 THEN <<>> ELSE merged_decks(n - 1) \o new_full_deck

\* CardStack.pop: the stack without its top card (the caller reads the top with peek).
pop(stack) == SubSeq(stack, 1, Len(stack) - 1)

\* CardStack.peek
peek(stack) == IF stack = << >> THEN NoCard ELSE stack[Len(stack)]

\* Variant of push with a slip: the card is inserted at the other end of the list.
push_first(stack, card) == << card >> \o stack

\* CardStack.push
push(stack, card) == Append(stack, card)

\* CardStack.__add__
add(stack, other_stack) == stack \o other_stack

\* random.shuffle: any rearrangement of the same cards.
Rearrangements(s) ==
    { t \in [1 .. Len(s) -> 1 .. Len(s)] : \A i, j \in 1 .. Len(s) : i # j => t[i] # t[j] }

Shuffles(s) == { [k \in 1 .. Len(s) |-> s[t[k]]] : t \in Rearrangements(s) }

\* find_pair, first loop: value_to_indices after the ids 0 .. upto of the mapping have
\* been visited, as a sequence of [value, indices] entries in insertion order.
RECURSIVE value_to_indices(_, _)
value_to_indices(player_cards, upto) ==
    IF upto < 0 THEN <<>>
    ELSE LET before == value_to_indices(player_cards, upto - 1)
         IN  IF upto \notin DOMAIN player_cards THEN before
             ELSE LET v == player_cards[upto].value
                      at == { k \in 1 .. Len(before) : before[k].value = v }
                  IN  IF at = {}
                      THEN Append(before, [value |-> v, indices |-> << upto >>])
                      ELSE [k \in 1 .. Len(before) |->
                               IF k \in at
                               THEN [before[k] EXCEPT !.indices = Append(@, upto)]
                               ELSE before[k]]

\* Variant of first_pair with a slip: the last two indices of the entry.
RECURSIVE first_pair_last_two(_, _)
first_pair_last_two(groups, k) ==
    IF k > Len(groups) THEN <<>>
    ELSE IF Len(groups[k].indices) > 1
         THEN SubSeq(groups[k].indices, Len(groups[k].indices) - 1, Len(groups[k].indices))
    ELSE first_pair_last_two(groups, k + 1)

\* find_pair, second loop: the first entry with more than one index, cut to two.
RECURSIVE first_pair(_, _)
first_pair(groups, k) ==
    IF k > Len(groups) THEN <<>>
    ELSE IF Len(groups[k].indices) > 1 THEN SubSeq(groups[k].indices, 1, 2)
    ELSE first_pair(groups, k + 1)

find_pair(player_cards) == first_pair(value_to_indices(player_cards, MaxPlayers + 1), 1)

(***************************************************************************)
(* simulator.py: pure helpers                                              *)
(***************************************************************************)
non_empty_down_piles(down) == { i \in DOMAIN down : Len(down[i]) > 0 }

\* Variant of is_game_over with a slip: the game goes on until no pile is left.
is_game_over_strict(down) == Cardinality(non_empty_down_piles(down)) < 1

is_game_over(down) == Cardinality(non_empty_down_piles(down)) <= 1

\* get_winning_player_index: the first non-empty down pile, NoPlayer for None.
get_winning_player_index(down) ==
    IF ~is_game_over(down) THEN NoPlayer
    ELSE IF non_empty_down_piles(down) = {} THEN NoPlayer
    ELSE CHOOSE i \in non_empty_down_piles(down) :
            \A j \in non_empty_down_piles(down) : i <= j

\* [player for player in self.players if player.still_in_game], as a sequence of ids.
RECURSIVE players_still_in_upto(_, _)
players_still_in_upto(flags, upto) ==
    IF upto < 0 THEN <<>>
    ELSE IF flags[upto] THEN Append(players_still_in_upto(flags, upto - 1), upto)
    ELSE players_still_in_upto(flags, upto - 1)

players_still_in(flags) == players_still_in_upto(flags, num_players - 1)

\* cards.values(): the visible cards in the order of the mapping (ascending id).
RECURSIVE cards_values(_, _)
cards_values(m, upto) ==
    IF upto < 0 THEN <<>>
    ELSE IF upto \in DOMAIN m THEN Append(cards_values(m, upto - 1), m[upto])
    ELSE cards_values(m, upto - 1)

(***************************************************************************)
(* Initial state: SnapSimulator.__init__                                   *)
(***************************************************************************)
InitSimulator ==
    /\ pc = "start"
    /\ num_players = 2
    /\ turn_count = 0
    /\ player_card_up_piles = << >>
    /\ player_card_down_piles = << >>
    /\ still_in_game = << >>
    /\ turn_queue = << >>
    /\ snap_queue = << >>
    /\ cards = << >>
    /\ responses = << >>
    /\ player_pc = << >>
    /\ error = "none"
    /\ interrupted = FALSE
    /\ reported = [kind |-> "nothing", winner |-> NoPlayer]
    /\ dealer_cards = << >>
    /\ drawn_by = NoPlayer
    /\ active_at_broadcast = {}
    /\ accepted = NoPlayer
    /\ player_to_receive_card = NoPlayer
    /\ out_sent = << >>
    /\ snap_decision = [i \in 0 .. (MaxPlayers - 1) |-> << >>]

\* HumanPlayer.__init__: the queue is empty and the thread waits for its first TURN.
InitHumanPlayer ==
    /\ should_snap_queue = << >>
    /\ human_pc = "waiting"
    /\ elapsed = 0
    /\ input_in_window = FALSE

\* CardStack(): no cards, nothing called yet.
InitCardStack ==
    /\ card_stack = << >>
    /\ stack_start = << >>
    /\ stack_ops = << >>

Init ==
    /\ InitSimulator
    /\ InitHumanPlayer
    /\ InitCardStack
    /\ find_pair_cards = << >>
    /\ find_pair_result = << >>

(***************************************************************************)
(* SnapSimulator.start_game (called by run with the configuration)         *)
(***************************************************************************)
\* Variant of deal with a slip: the cards are counted from 1, so the first card
\* goes to the second player.
RECURSIVE deal_shifted(_, _, _)
deal_shifted(deck, n, k) ==
    IF k = 0 THEN [i \in 0 .. (n - 1) |-> << >>]
    ELSE LET before == deal_shifted(deck, n, k - 1)
         IN  [before EXCEPT ![k % n] = push(@, deck[k])]

\* Round-robin dealing: card number k (0-based) goes on top of pile k % n.
RECURSIVE deal(_, _, _)
deal(deck, n, k) ==
    IF k = 0 THEN [i \in 0 .. (n - 1) |-> << >>]
    ELSE LET before == deal(deck, n, k - 1)
         IN  [before EXCEPT ![(k - 1) % n] = push(@, deck[k])]

\* Variant of initial_still_in_game with a slip: the flag starts as False.
initial_still_in_game_false(n) == [i \in 0 .. (n - 1) |-> FALSE]

\* Player.__init__ of the n players: self.still_in_game = True
initial_still_in_game(n) == [i \in 0 .. (n - 1) |-> TRUE]

start_game ==
    /\ pc = "start"
    /\ \E n \in MinPlayers .. MaxPlayers, deck \in Shuffles(merged_decks(num_decks)) :
          /\ num_players' = n
          /\ dealer_cards' = deck
          /\ player_card_up_piles' = [i \in 0 .. (n - 1) |-> << >>]
          /\ player_card_down_piles' = deal(deck, n, Len(deck))
          /\ still_in_game' = initial_still_in_game(n)
          /\ turn_queue' = [i \in 0 .. (n - 1) |-> << >>]
          /\ player_pc' = [i \in 0 .. (n - 1) |-> "waiting"]
          /\ out_sent' = [i \in 0 .. (n - 1) |-> 0]
    /\ turn_count' = 1
    /\ snap_queue' = << >>
    /\ pc' = "loop"
    /\ UNCHANGED << snap_decision, pair_vars, human_vars, stack_vars >>
    /\ UNCHANGED << cards, responses, error, interrupted, reported, drawn_by,
                    active_at_broadcast, accepted, player_to_receive_card >>

(***************************************************************************)
(* SnapSimulator.run: the loop condition                                   *)
(***************************************************************************)
LoopPcs == { "loop", "reveal", "broadcast", "collect_check", "collect_get",
             "resolve", "mark_out", "incr", "game_over" }

run_loop ==
    /\ pc = "loop"
    /\ IF is_game_over(player_card_down_piles)
       THEN pc' = "game_over"
       ELSE /\ turn_count <= MaxTurns
            /\ pc' = "reveal"
    /\ UNCHANGED << snap_decision, pair_vars, human_vars, stack_vars >>
    /\ UNCHANGED << num_players, turn_count, player_card_up_piles, player_card_down_piles,
                    still_in_game, turn_queue, snap_queue, cards, responses, player_pc,
                    error, interrupted, reported, dealer_cards, drawn_by,
                    active_at_broadcast, accepted, player_to_receive_card, out_sent >>

(***************************************************************************)
(* SnapSimulator.turn_over_new_card                                        *)
(***************************************************************************)
\* players_still_in[self.turn_count % len(players_still_in)]
player_whose_turn_it_is(still_in, count) == still_in[(count % Len(still_in)) + 1]

\* The dict of top cards: every player with a non-empty up pile.
top_cards(up) == [i \in { j \in DOMAIN up : Len(up[j]) > 0 } |-> peek(up[i])]

turn_over_new_card ==
    /\ pc = "reveal"
    /\ LET still_in == players_still_in(still_in_game)
       IN  IF Len(still_in) = 0
           THEN \* modulo by zero
                /\ error' = "ZeroDivisionError"
                /\ pc' = "cleanup"
                /\ UNCHANGED << player_card_up_piles, player_card_down_piles, cards,
                                drawn_by >>
           ELSE LET who == player_whose_turn_it_is(still_in, turn_count)
                IN  IF Len(player_card_down_piles[who]) = 0
                    THEN \* list.pop() on an empty list
                         /\ error' = "IndexError"
                         /\ pc' = "cleanup"
                         /\ drawn_by' = who
                         /\ UNCHANGED << player_card_up_piles, player_card_down_piles,
                                         cards >>
                    ELSE LET card == peek(player_card_down_piles[who])
                             up == [player_card_up_piles EXCEPT ![who] = push(@, card)]
                         IN  /\ player_card_down_piles' =
                                    [player_card_down_piles EXCEPT ![who] = pop(@)]
                             /\ player_card_up_piles' = up
                             /\ cards' = top_cards(up)
                             /\ drawn_by' = who
                             /\ pc' = "broadcast"
                             /\ UNCHANGED error
    /\ UNCHANGED << snap_decision, pair_vars, human_vars, stack_vars >>
    /\ UNCHANGED << num_players, turn_count, still_in_game, turn_queue, snap_queue,
                    responses, player_pc, interrupted, reported, dealer_cards,
                    active_at_broadcast, accepted, player_to_receive_card, out_sent >>

(***************************************************************************)
(* SnapSimulator.gather_responses                                          *)
(***************************************************************************)
ServerMessage(type, visible) == [message_type |-> type, cards |-> visible]

PlayerMessage(id, type) == [player_id |-> id, message_type |-> type]

\* The first loop: TURN is put on the turn_queue of every player.
gather_responses_broadcast ==
    /\ pc = "broadcast"
    /\ responses' = << >>
    /\ turn_queue' =
          [i \in Players |->
              Append(turn_queue[i], ServerMessage("TURN", cards_values(cards, num_players - 1)))]
    /\ active_at_broadcast' = { i \in Players : still_in_game[i] }
    /\ pc' = "collect_check"
    /\ UNCHANGED << snap_decision, pair_vars, human_vars, stack_vars >>
    /\ UNCHANGED << num_players, turn_count, player_card_up_piles, player_card_down_piles,
                    still_in_game, snap_queue, cards, player_pc, error, interrupted,
                    reported, dealer_cards, drawn_by, accepted, player_to_receive_card, out_sent >>

\* Variant of still_in_count with a slip: one player too few is waited for.
still_in_count_short(flags) == Cardinality({ i \in DOMAIN flags : flags[i] }) - 1

\* len([player for player in self.players if player.still_in_game])
still_in_count(flags) == Cardinality({ i \in DOMAIN flags : flags[i] })

\* The while condition, evaluated with the flags as they are at this instant.
gather_responses_check ==
    /\ pc = "collect_check"
    /\ IF Len(responses) < still_in_count(still_in_game)
       THEN pc' = "collect_get"
       ELSE pc' = "resolve"
    /\ UNCHANGED << snap_decision, pair_vars, human_vars, stack_vars >>
    /\ UNCHANGED << num_players, turn_count, player_card_up_piles, player_card_down_piles,
                    still_in_game, turn_queue, snap_queue, cards, responses, player_pc,
                    error, interrupted, reported, dealer_cards, drawn_by,
                    active_at_broadcast, accepted, player_to_receive_card, out_sent >>

\* self.snap_queue.get(block=True): waits until a response is there.
gather_responses_get ==
    /\ pc = "collect_get"
    /\ snap_queue # << >>
    /\ responses' = Append(responses, Head(snap_queue))
    /\ snap_queue' = Tail(snap_queue)
    /\ pc' = "collect_check"
    /\ UNCHANGED << snap_decision, pair_vars, human_vars, stack_vars >>
    /\ UNCHANGED << num_players, turn_count, player_card_up_piles, player_card_down_piles,
                    still_in_game, turn_queue, cards, player_pc, error, interrupted,
                    reported, dealer_cards, drawn_by, active_at_broadcast, accepted, player_to_receive_card,
                    out_sent >>

(***************************************************************************)
(* SnapSimulator.process_responses and resolve_snap_decision*              *)
(***************************************************************************)
\* Variant of first_snap with a slip: ties are broken by player id, not by arrival.
first_snap_by_id(msgs, k) ==
    LET snaps == { j \in k .. Len(msgs) : msgs[j].message_type = "SNAP" }
    IN  IF snaps = {} THEN 0
        ELSE CHOOSE j \in snaps : \A h \in snaps : msgs[j].player_id <= msgs[h].player_id

\* The loop of process_responses: the position of the first SNAP from position k on,
\* 0 if there is none.
RECURSIVE first_snap(_, _)
first_snap(msgs, k) ==
    IF k > Len(msgs) THEN 0
    ELSE IF msgs[k].message_type = "SNAP" THEN k
    ELSE first_snap(msgs, k + 1)

\* Variants of resolve_snap_decision_correct with a slip: the second paired up pile
\* is not cleared; the cards go to the first paired player instead of the caller.
resolve_snap_decision_correct_keeps_pile(up, down, snap_indices, player_id) ==
    LET victory_cards == add(up[snap_indices[1]], up[snap_indices[2]])
    IN  [up    |-> [up EXCEPT ![snap_indices[1]] = << >>],
         down  |-> [down EXCEPT ![player_id] = add(@, victory_cards)],
         to    |-> NoPlayer,
         error |-> "none"]

resolve_snap_decision_correct_to_paired(up, down, snap_indices, player_id) ==
    LET victory_cards == add(up[snap_indices[1]], up[snap_indices[2]])
    IN  [up    |-> [up EXCEPT ![snap_indices[1]] = << >>, ![snap_indices[2]] = << >>],
         down  |-> [down EXCEPT ![snap_indices[1]] = add(@, victory_cards)],
         to    |-> NoPlayer,
         error |-> "none"]

\* resolve_snap_decision_correct: the piles afterwards.
resolve_snap_decision_correct(up, down, snap_indices, player_id) ==
    LET victory_cards == add(up[snap_indices[1]], up[snap_indices[2]])
    IN  [up    |-> [up EXCEPT ![snap_indices[1]] = << >>, ![snap_indices[2]] = << >>],
         down  |-> [down EXCEPT ![player_id] = add(@, victory_cards)],
         to    |-> NoPlayer,
         error |-> "none"]

\* Variant of other_players_still_in with a slip: still_in_game is not looked at.
other_players_any(flags, player_id) == DOMAIN flags \ { player_id }

\* Variant of other_players_still_in with a slip: the caller is not removed.
other_players_still_in_with_caller(flags, player_id) ==
    { i \in DOMAIN flags : flags[i] }

\* The players random.choice picks from in resolve_snap_decision_incorrect.
other_players_still_in(flags, player_id) ==
    { i \in DOMAIN flags : flags[i] } \ { player_id }

\* resolve_snap_decision_incorrect: every outcome the random choice can produce.
resolve_snap_decision_incorrect(up, down, flags, player_id) ==
    IF Len(down[player_id]) = 0
    THEN { [up |-> up, down |-> down, to |-> NoPlayer, error |-> "none"] }
    ELSE LET card == peek(down[player_id])
             popped == [down EXCEPT ![player_id] = pop(@)]
             others == other_players_still_in(flags, player_id)
         IN  IF others = {}
             THEN \* random.choice on an empty list, after the card was popped
                  { [up |-> up, down |-> popped, to |-> NoPlayer, error |-> "IndexError"] }
             ELSE { [up |-> up,
                     down |-> [popped EXCEPT ![to] = push(@, card)],
                     to |-> to,
                     error |-> "none"] : to \in others }

\* resolve_snap_decision
resolve_snap_decision(up, down, flags, visible, player_id) ==
    LET snap_indices == find_pair(visible)
    IN  IF snap_indices # << >>
        THEN { resolve_snap_decision_correct(up, down, snap_indices, player_id) }
        ELSE resolve_snap_decision_incorrect(up, down, flags, player_id)

process_responses ==
    /\ pc = "resolve"
    /\ LET k == first_snap(responses, 1)
       IN  IF k = 0
           THEN /\ accepted' = NoPlayer
                /\ player_to_receive_card' = NoPlayer
                /\ pc' = "mark_out"
                /\ UNCHANGED << player_card_up_piles, player_card_down_piles, error >>
           ELSE \E out \in resolve_snap_decision(player_card_up_piles,
                                                 player_card_down_piles, still_in_game,
                                                 cards, responses[k].player_id) :
                   /\ accepted' = responses[k].player_id
                   /\ player_to_receive_card' = out.to
                   /\ player_card_up_piles' = out.up
                   /\ player_card_down_piles' = out.down
                   /\ error' = out.error
                   /\ pc' = IF out.error = "none" THEN "mark_out" ELSE "cleanup"
    /\ UNCHANGED << snap_decision, pair_vars, human_vars, stack_vars >>
    /\ UNCHANGED << num_players, turn_count, still_in_game, turn_queue, snap_queue, cards,
                    responses, player_pc, interrupted, reported, dealer_cards, drawn_by,
                    active_at_broadcast, out_sent >>

(***************************************************************************)
(* SnapSimulator.mark_players_out and the end of play_turn                 *)
(***************************************************************************)
\* Variant of players_to_mark_out with a slip: still_in_game is not looked at.
players_to_mark_out_any(flags, down) == { i \in DOMAIN flags : Len(down[i]) = 0 }

\* Variant of players_to_mark_out with a slip: a pile of one card counts as empty.
players_to_mark_out_early(flags, down) ==
    { i \in DOMAIN flags : flags[i] /\ Len(down[i]) <= 1 }

\* The players mark_players_out sends PLAYER_OUT to.
players_to_mark_out(flags, down) == { i \in DOMAIN flags : flags[i] /\ Len(down[i]) = 0 }

mark_players_out ==
    /\ pc = "mark_out"
    /\ LET out == players_to_mark_out(still_in_game, player_card_down_piles)
       IN  /\ turn_queue' =
                 [i \in Players |->
                     IF i \in out
                     THEN Append(turn_queue[i], ServerMessage("PLAYER_OUT", << >>))
                     ELSE turn_queue[i]]
           /\ out_sent' = [i \in Players |-> IF i \in out THEN out_sent[i] + 1 ELSE out_sent[i]]
    /\ pc' = "incr"
    /\ UNCHANGED << snap_decision, pair_vars, human_vars, stack_vars >>
    /\ UNCHANGED << num_players, turn_count, player_card_up_piles, player_card_down_piles,
                    still_in_game, snap_queue, cards, responses, player_pc, error,
                    interrupted, reported, dealer_cards, drawn_by, active_at_broadcast,
                    accepted, player_to_receive_card >>

\* self.turn_count += 1 (and the sleep that follows)
play_turn_end ==
    /\ pc = "incr"
    /\ turn_count' = turn_count + 1
    /\ pc' = "loop"
    /\ UNCHANGED << snap_decision, pair_vars, human_vars, stack_vars >>
    /\ UNCHANGED << num_players, player_card_up_piles, player_card_down_piles,
                    still_in_game, turn_queue, snap_queue, cards, responses, player_pc,
                    error, interrupted, reported, dealer_cards, drawn_by,
                    active_at_broadcast, accepted, player_to_receive_card, out_sent >>

(***************************************************************************)
(* The end of SnapSimulator.run                                            *)
(***************************************************************************)
print_game_over_message ==
    /\ pc = "game_over"
    /\ LET winner_index == get_winning_player_index(player_card_down_piles)
       IN  reported' = IF winner_index = NoPlayer
                       THEN [kind |-> "draw", winner |-> NoPlayer]
                       ELSE [kind |-> "won", winner |-> winner_index]
    /\ pc' = "cleanup"
    /\ UNCHANGED << snap_decision, pair_vars, human_vars, stack_vars >>
    /\ UNCHANGED << num_players, turn_count, player_card_up_piles, player_card_down_piles,
                    still_in_game, turn_queue, snap_queue, cards, responses, player_pc,
                    error, interrupted, dealer_cards, drawn_by, active_at_broadcast,
                    accepted, player_to_receive_card, out_sent >>

\* except KeyboardInterrupt: the interruption can arrive anywhere inside the try block.
KeyboardInterrupt ==
    /\ pc \in LoopPcs
    /\ interrupted' = TRUE
    /\ pc' = "cleanup"
    /\ UNCHANGED << snap_decision, pair_vars, human_vars, stack_vars >>
    /\ UNCHANGED << num_players, turn_count, player_card_up_piles, player_card_down_piles,
                    still_in_game, turn_queue, snap_queue, cards, responses, player_pc,
                    error, reported, dealer_cards, drawn_by, active_at_broadcast,
                    accepted, player_to_receive_card, out_sent >>

\* cleanup_workers, first loop: END_GAME to every player.
cleanup_workers ==
    /\ pc = "cleanup"
    /\ turn_queue' = [i \in Players |-> Append(turn_queue[i], ServerMessage("END_GAME", << >>))]
    /\ pc' = "join"
    /\ UNCHANGED << snap_decision, pair_vars, human_vars, stack_vars >>
    /\ UNCHANGED << num_players, turn_count, player_card_up_piles, player_card_down_piles,
                    still_in_game, snap_queue, cards, responses, player_pc, error,
                    interrupted, reported, dealer_cards, drawn_by, active_at_broadcast,
                    accepted, player_to_receive_card, out_sent >>

\* Variant of cleanup_join with a slip: run returns without joining the threads.
cleanup_join_no_wait ==
    /\ pc = "join"
    /\ pc' = "done"
    /\ UNCHANGED << snap_decision, pair_vars, human_vars, stack_vars >>
    /\ UNCHANGED << num_players, turn_count, player_card_up_piles, player_card_down_piles,
                    still_in_game, turn_queue, snap_queue, cards, responses, player_pc,
                    error, interrupted, reported, dealer_cards, drawn_by,
                    active_at_broadcast, accepted, player_to_receive_card, out_sent >>

\* cleanup_workers, second loop: thread.join() of every thread.
cleanup_join ==
    /\ pc = "join"
    /\ \A i \in Players : player_pc[i] = "terminated"
    /\ pc' = "done"
    /\ UNCHANGED << snap_decision, pair_vars, human_vars, stack_vars >>
    /\ UNCHANGED << num_players, turn_count, player_card_up_piles, player_card_down_piles,
                    still_in_game, turn_queue, snap_queue, cards, responses, player_pc,
                    error, interrupted, reported, dealer_cards, drawn_by,
                    active_at_broadcast, accepted, player_to_receive_card, out_sent >>

(***************************************************************************)
(* Player.run (one thread per player)                                      *)
(***************************************************************************)
\* Variant of player_receive with a slip: PLAYER_OUT clears the flag but the loop
\* is not left.
player_receive_no_break(i) ==
    /\ i \in Players
    /\ player_pc[i] = "waiting"
    /\ turn_queue[i] # << >>
    /\ LET server_message == Head(turn_queue[i])
       IN  IF server_message.message_type \in { "END_GAME", "PLAYER_OUT" }
           THEN /\ still_in_game' = [still_in_game EXCEPT ![i] = FALSE]
                /\ player_pc' = [player_pc EXCEPT ![i] =
                                     IF server_message.message_type = "END_GAME"
                                     THEN "terminated" ELSE "waiting"]
           ELSE /\ player_pc' = [player_pc EXCEPT ![i] = "deciding"]
                /\ UNCHANGED still_in_game
    /\ turn_queue' = [turn_queue EXCEPT ![i] = Tail(@)]
    /\ snap_decision' = [snap_decision EXCEPT ![i] = << >>]
    /\ UNCHANGED << pair_vars, human_vars, stack_vars >>
    /\ UNCHANGED << pc, num_players, turn_count, player_card_up_piles,
                    player_card_down_piles, snap_queue, cards, responses, error,
                    interrupted, reported, dealer_cards, drawn_by, active_at_broadcast,
                    accepted, player_to_receive_card, out_sent >>

\* server_message = self.turn_queue.get(block=True) and the three tests on its type.
player_receive(i) ==
    /\ i \in Players
    /\ player_pc[i] = "waiting"
    /\ turn_queue[i] # << >>
    /\ LET server_message == Head(turn_queue[i])
       IN  IF server_message.message_type \in { "END_GAME", "PLAYER_OUT" }
           THEN /\ still_in_game' = [still_in_game EXCEPT ![i] = FALSE]
                /\ player_pc' = [player_pc EXCEPT ![i] = "terminated"]
           ELSE /\ player_pc' = [player_pc EXCEPT ![i] = "deciding"]
                /\ UNCHANGED still_in_game
    /\ turn_queue' = [turn_queue EXCEPT ![i] = Tail(@)]
    /\ snap_decision' = [snap_decision EXCEPT ![i] = << >>]
    /\ UNCHANGED << pair_vars, human_vars, stack_vars >>
    /\ UNCHANGED << pc, num_players, turn_count, player_card_up_piles,
                    player_card_down_piles, snap_queue, cards, responses, error,
                    interrupted, reported, dealer_cards, drawn_by, active_at_broadcast,
                    accepted, player_to_receive_card, out_sent >>

\* Variant of decision_message with a slip: the two branches are exchanged.
decision_message_swapped(i, should_call_snap) ==
    PlayerMessage(i, IF should_call_snap THEN "NO_SNAP" ELSE "SNAP")

\* The message put on the snap_queue for the value should_call_snap returned.
decision_message(i, should_call_snap) ==
    PlayerMessage(i, IF should_call_snap THEN "SNAP" ELSE "NO_SNAP")

\* should_call_snap returns (either value: the policy is the player's) and the
\* decision is put on the shared snap_queue.
player_respond(i) ==
    /\ i \in Players
    /\ player_pc[i] = "deciding"
    /\ \E should_call_snap \in BOOLEAN :
          /\ snap_queue' = Append(snap_queue, decision_message(i, should_call_snap))
          /\ snap_decision' = [snap_decision EXCEPT ![i] = << should_call_snap >>]
    /\ player_pc' = [player_pc EXCEPT ![i] = "waiting"]
    /\ UNCHANGED << pair_vars, human_vars, stack_vars >>
    /\ UNCHANGED << pc, num_players, turn_count, player_card_up_piles,
                    player_card_down_piles, still_in_game, turn_queue, cards, responses,
                    error, interrupted, reported, dealer_cards, drawn_by,
                    active_at_broadcast, accepted, player_to_receive_card, out_sent >>

Arbiter ==
    \/ start_game
    \/ run_loop
    \/ turn_over_new_card
    \/ gather_responses_broadcast
    \/ gather_responses_check
    \/ gather_responses_get
    \/ process_responses
    \/ mark_players_out
    \/ play_turn_end
    \/ print_game_over_message
    \/ cleanup_workers
    \/ cleanup_join

PlayerIds == 0 .. (MaxPlayers - 1)

Next ==
    \/ Arbiter
    \/ \E i \in PlayerIds : player_receive(i)
    \/ \E i \in PlayerIds : player_respond(i)

\* The program left alone: no external interruption.
Spec == Init /\ [][Next]_vars

\* Every thread that can run is eventually scheduled.
FairSpec ==
    /\ Spec
    /\ WF_vars(Arbiter)
    /\ \A i \in PlayerIds : WF_vars(player_receive(i)) /\ WF_vars(player_respond(i))

\* The program with a KeyboardInterrupt possible anywhere in the turn loop.
NextInterruptible == Next \/ KeyboardInterrupt

SpecInterruptible == Init /\ [][NextInterruptible]_vars

\* The same, every thread scheduled fairly; the interruption itself may never come.
FairSpecInterruptible ==
    /\ SpecInterruptible
    /\ WF_vars(Arbiter)
    /\ \A i \in PlayerIds : WF_vars(player_receive(i)) /\ WF_vars(player_respond(i))

\* The program when should_call_snap returns False to every player, every time.
player_respond_no_snap(i) == player_respond(i) /\ snap_decision'[i] = << FALSE >>

NextNoSnap ==
    \/ Arbiter
    \/ \E i \in PlayerIds : player_receive(i)
    \/ \E i \in PlayerIds : player_respond_no_snap(i)

NoSnapSpec == Init /\ [][NextNoSnap]_vars

\* The same, every thread that can run eventually scheduled.
FairNoSnapSpec ==
    /\ NoSnapSpec
    /\ WF_vars(Arbiter)
    /\ \A i \in PlayerIds : WF_vars(player_receive(i)) /\ WF_vars(player_respond_no_snap(i))

(***************************************************************************)
(* find_pair called alone, on every mapping of player ids to cards         *)
(***************************************************************************)
\* The player ids of a mapping: one more than the simulator is run with here, the
\* four that main.py accepts.
PairIds == 0 .. MaxPlayers

\* Dict[int, Card], enumerated by ascending id as play_turn builds it.
Mappings == UNION { [ids -> Card] : ids \in SUBSET PairIds }

InitPair ==
    /\ InitSimulator
    /\ InitHumanPlayer
    /\ InitCardStack
    /\ find_pair_cards \in Mappings
    /\ find_pair_result = << >>

call_find_pair ==
    /\ find_pair_result = << >>
    /\ find_pair_result' = << find_pair(find_pair_cards) >>
    /\ UNCHANGED << simulator_vars, human_vars, stack_vars, find_pair_cards >>

NextPair == call_find_pair

PairSpec == InitPair /\ [][NextPair]_vars

(***************************************************************************)
(* player.py: the HumanPlayer thread and its keyboard_watcher thread       *)
(***************************************************************************)
\* Queue(maxsize=1)
maxsize == 1

\* self.should_snap_queue.get(timeout=3)
timeout == 3

\* "You'll be player 0."
human_player_id == 0

\* Player.run of the HumanPlayer: a TURN is taken from the turn_queue and
\* should_call_snap is entered.
human_run_get ==
    /\ human_pc = "waiting"
    /\ Len(snap_queue) < MaxTurns
    /\ human_pc' = "deciding"
    /\ elapsed' = 0
    /\ input_in_window' = FALSE
    /\ UNCHANGED << simulator_vars, pair_vars, stack_vars, should_snap_queue >>

\* keyboard_watcher: input() returns and True is put on the queue unless it is Full.
keyboard_watcher ==
    /\ should_snap_queue' = IF Len(should_snap_queue) < maxsize
                            THEN Append(should_snap_queue, TRUE)
                            ELSE should_snap_queue
    /\ input_in_window' = (input_in_window \/ human_pc = "deciding")
    /\ UNCHANGED << simulator_vars, pair_vars, stack_vars, human_pc, elapsed >>

\* One time unit passes while get(timeout=3) waits on the empty queue.
get_waits ==
    /\ human_pc = "deciding"
    /\ should_snap_queue = << >>
    /\ elapsed < timeout
    /\ elapsed' = elapsed + 1
    /\ UNCHANGED << simulator_vars, pair_vars, stack_vars, should_snap_queue, human_pc,
                    input_in_window >>

\* The rest of Player.run after should_call_snap has returned the given value.
human_run_put(should_call_snap) ==
    /\ snap_queue' = Append(snap_queue, decision_message(human_player_id, should_call_snap))
    /\ human_pc' = "waiting"
    /\ UNCHANGED << pc, num_players, turn_count, player_card_up_piles,
                    player_card_down_piles, still_in_game, turn_queue, cards, responses,
                    player_pc, error, interrupted, reported, dealer_cards, drawn_by,
                    active_at_broadcast, accepted, player_to_receive_card, out_sent,
                    snap_decision, pair_vars, stack_vars, elapsed, input_in_window >>

\* should_call_snap: get returns the item of the queue.
should_call_snap_get ==
    /\ human_pc = "deciding"
    /\ should_snap_queue # << >>
    /\ should_snap_queue' = Tail(should_snap_queue)
    /\ human_run_put(Head(should_snap_queue))

\* should_call_snap: the timeout has passed, get raises Empty, False is returned.
should_call_snap_Empty ==
    /\ human_pc = "deciding"
    /\ should_snap_queue = << >>
    /\ elapsed = timeout
    /\ UNCHANGED should_snap_queue
    /\ human_run_put(FALSE)

NextHuman ==
    \/ human_run_get
    \/ keyboard_watcher
    \/ get_waits
    \/ should_call_snap_get
    \/ should_call_snap_Empty

HumanSpec == Init /\ [][NextHuman]_vars

(***************************************************************************)
(* cards.py: a CardStack used alone                                        *)
(***************************************************************************)
\* CardStack(cards) for every list of at most MaxStack cards.
SmallStacks == UNION { [1 .. n -> Card] : n \in 0 .. MaxStack }

InitStack ==
    /\ InitSimulator
    /\ InitHumanPlayer
    /\ find_pair_cards = << >>
    /\ find_pair_result = << >>
    /\ card_stack \in SmallStacks
    /\ stack_start = card_stack
    /\ stack_ops = << >>

\* One call on the stack is over: it is recorded with its argument, what it returned,
\* whether it raised, and the cards it left.
called(name, card, returned, raised, after) ==
    /\ Len(stack_ops) < MaxOps
    /\ card_stack' = after
    /\ stack_ops' = Append(stack_ops, [name |-> name, card |-> card, returned |-> returned,
                                       raised |-> raised, after |-> after])
    /\ UNCHANGED << simulator_vars, pair_vars, human_vars, stack_start >>

stack_push == \E card \in Card : called("push", card, NoCard, FALSE, push(card_stack, card))

\* self._cards.pop(): the last card, IndexError on an empty list.
stack_pop ==
    IF card_stack = << >>
    THEN called("pop", NoCard, NoCard, TRUE, card_stack)
    ELSE called("pop", NoCard, card_stack[Len(card_stack)], FALSE, pop(card_stack))

stack_peek == called("peek", NoCard, peek(card_stack), FALSE, card_stack)

\* stack + CardStack.new_full_deck()
stack_add_new_full_deck ==
    called("add", NoCard, NoCard, FALSE, add(card_stack, new_full_deck_all))

NextStack ==
    \/ stack_push
    \/ stack_pop
    \/ stack_peek
    \/ stack_add_new_full_deck

StackSpec == InitStack /\ [][NextStack]_vars

(***************************************************************************)
(* Properties                                                              *)
(***************************************************************************)
Collecting == pc \in { "collect_check", "collect_get" }

\* The positions of the SNAP responses collected this turn.
SnapPositions == { k \in 1 .. Len(responses) : responses[k].message_type = "SNAP" }

\* The sender of the SNAP that arrived first (only used when there is one).
FirstSnapper ==
    responses[CHOOSE k \in SnapPositions : \A h \in SnapPositions : k <= h].player_id

\* All the cards of the piles of the players 0 .. upto, in one sequence.
RECURSIVE AllCards(_)
AllCards(upto) ==
    IF upto < 0 THEN << >>
    ELSE AllCards(upto - 1) \o player_card_down_piles[upto] \o player_card_up_piles[upto]

\* How often a card occurs in a sequence of cards.
Occurrences(stack, card) == Cardinality({ k \in 1 .. Len(stack) : stack[k] = card })

\* C1: under fair scheduling of the arbiter and of every player thread, whenever the
\* arbiter is collecting the responses of a turn it eventually starts resolving the
\* turn: it is never blocked forever on the shared response queue.
C1_CollectCompletes == Collecting ~> (pc = "resolve")

\* C2: when the arbiter starts resolving, it holds exactly one response from every
\* player whose still_in_game was true when TURN was broadcast and no response from
\* anybody else.
C2_OneResponsePerActive ==
    pc = "resolve" =>
        /\ \A i \in active_at_broadcast :
              Cardinality({ k \in 1 .. Len(responses) : responses[k].player_id = i }) = 1
        /\ \A k \in 1 .. Len(responses) : responses[k].player_id \in active_at_broadcast

\* C3: after start_game and after every step of the arbiter the up and down piles
\* together hold as many cards as num_decks full decks (52 * num_decks with all the
\* values and suits), and every card occurs in them exactly as often as in the deck
\* that was dealt.
C3_CardConservation ==
    pc # "start" =>
        LET all == AllCards(num_players - 1)
        IN  /\ Len(all) = Len(new_full_deck) * num_decks
            /\ \A c \in Card : Occurrences(all, c) = Occurrences(dealer_cards, c)

\* A correct snap was just resolved for a caller who held cards: the won up piles
\* are now part of a down pile of three cards or more.
C3_Witness ==
    /\ pc = "mark_out"
    /\ accepted # NoPlayer
    /\ find_pair(cards) # << >>
    /\ Len(player_card_down_piles[accepted]) >= 3

\* C4: whenever the reveal step runs, the player it selects has a non-empty down
\* pile, so pop() is never called on an empty pile.
C4_NeverPopsEmptyPile ==
    pc = "reveal" =>
        LET still_in == players_still_in(still_in_game)
        IN  /\ Len(still_in) > 0
            /\ Len(player_card_down_piles[player_whose_turn_it_is(still_in, turn_count)]) > 0

\* C5: resolution acts for the sender of the SNAP that arrived first on the queue and
\* for nobody else, whatever the player ids; without a SNAP it leaves the piles alone.
C5_FirstResponderWins ==
    [][ pc = "resolve" =>
          IF SnapPositions = {}
          THEN /\ accepted' = NoPlayer
               /\ player_card_up_piles' = player_card_up_piles
               /\ player_card_down_piles' = player_card_down_piles
          ELSE /\ accepted' = FirstSnapper
               /\ \E out \in resolve_snap_decision(player_card_up_piles,
                                                   player_card_down_piles, still_in_game,
                                                   cards, FirstSnapper) :
                     /\ player_card_up_piles' = out.up
                     /\ player_card_down_piles' = out.down ]_vars

\* Two SNAPs were collected, the one that arrived first came from the player with
\* the higher id, and it is the one that was accepted.
C5_Witness ==
    /\ pc = "mark_out"
    /\ accepted # NoPlayer
    /\ \E k \in SnapPositions :
          /\ responses[k].player_id < accepted
          /\ \E h \in SnapPositions : h < k /\ responses[h].player_id = accepted

\* C6: a correct snap puts the two paired up piles at the bottom of the caller's down
\* pile: the cards the caller already held stay on top and are popped first.
C6_WonCardsAtBottom ==
    [][ (pc = "resolve" /\ SnapPositions # {} /\ find_pair(cards) # << >>) =>
          LET pair == find_pair(cards)
              won  == player_card_up_piles[pair[1]] \o player_card_up_piles[pair[2]]
          IN  player_card_down_piles'[FirstSnapper]
                 = won \o player_card_down_piles[FirstSnapper] ]_vars

\* C7: a correct snap empties the up piles of the two paired players and no other,
\* makes the caller's down pile longer by the size of those two piles, and leaves
\* every other down pile as it was.
C7_CorrectSnapFrame ==
    [][ (pc = "resolve" /\ SnapPositions # {} /\ find_pair(cards) # << >>) =>
          LET pair == find_pair(cards)
          IN  /\ \A i \in Players :
                    player_card_up_piles'[i] =
                       IF i = pair[1] \/ i = pair[2] THEN << >>
                       ELSE player_card_up_piles[i]
              /\ \A i \in Players :
                    IF i = FirstSnapper
                    THEN Len(player_card_down_piles'[i]) =
                            Len(player_card_down_piles[i])
                              + Len(player_card_up_piles[pair[1]])
                              + Len(player_card_up_piles[pair[2]])
                    ELSE player_card_down_piles'[i] = player_card_down_piles[i] ]_vars

\* A correct snap was just resolved for a caller who is not one of the two paired
\* players, while a third up pile held cards and keeps them.
C7_Witness ==
    /\ pc = "mark_out"
    /\ accepted # NoPlayer
    /\ find_pair(cards) # << >>
    /\ accepted # find_pair(cards)[1]
    /\ accepted # find_pair(cards)[2]
    /\ Len(player_card_down_piles[accepted]) >= 2
    /\ \E i \in Players : Len(player_card_up_piles[i]) > 0

\* C8: an incorrect snap by a caller with a non-empty down pile moves the top card of
\* that pile onto the down pile of one other player whose still_in_game is true, and
\* changes nothing else; with an empty down pile it changes nothing.
C8_IncorrectSnap ==
    [][ (pc = "resolve" /\ SnapPositions # {} /\ find_pair(cards) = << >>) =>
          /\ player_card_up_piles' = player_card_up_piles
          /\ IF Len(player_card_down_piles[FirstSnapper]) = 0
             THEN player_card_down_piles' = player_card_down_piles
             ELSE \E to \in Players \ { FirstSnapper } :
                     /\ still_in_game[to]
                     /\ player_card_down_piles' =
                           [player_card_down_piles EXCEPT
                               ![FirstSnapper] = SubSeq(@, 1, Len(@) - 1),
                               ![to] = Append(@, player_card_down_piles[FirstSnapper]
                                                   [Len(player_card_down_piles[FirstSnapper])])] ]_vars

\* An incorrect snap was just resolved and its card went to another player.
C8_Witness ==
    /\ pc = "mark_out"
    /\ accepted # NoPlayer
    /\ find_pair(cards) = << >>
    /\ player_to_receive_card # NoPlayer
    /\ player_to_receive_card # accepted

\* C9: with three players all still in the game, the turn with turn_count = 1 pops the
\* down pile of player 0 and the turn with turn_count = 2 that of player 1.
C9_TurnRotation ==
    (pc = "broadcast" /\ num_players = 3 /\ \A i \in Players : still_in_game[i]) =>
        /\ turn_count = 1 => drawn_by = 0
        /\ turn_count = 2 => drawn_by = 1

\* C10: when mark_players_out is done and turn_count is not yet incremented, every
\* player with an empty down pile has still_in_game false and has been sent
\* PLAYER_OUT, and no player with cards in the down pile is marked out.
C10_EliminationMarking ==
    pc = "incr" =>
        \A i \in Players :
            IF Len(player_card_down_piles[i]) = 0
            THEN ~still_in_game[i] /\ out_sent[i] > 0
            ELSE still_in_game[i] /\ out_sent[i] = 0

\* A step of a player thread.
PlayerStep == \E i \in PlayerIds : player_receive(i) \/ player_respond(i)

\* The turn_queue of player i loses no message in this step.
NothingConsumed(i) ==
    /\ Len(turn_queue'[i]) >= Len(turn_queue[i])
    /\ SubSeq(turn_queue'[i], 1, Len(turn_queue[i])) = turn_queue[i]

\* The messages of player i on the snap_queue and in the collected responses.
SentBy(i) ==
    Cardinality({ k \in 1 .. Len(snap_queue) : snap_queue[k].player_id = i })
      + Cardinality({ k \in 1 .. Len(responses) : responses[k].player_id = i })

\* C11: no step of a player thread changes a still_in_game flag or a pile; they
\* change in steps of the arbiter only.
C11_ArbiterOwnsPlayerState ==
    [][ PlayerStep =>
          /\ still_in_game' = still_in_game
          /\ player_card_up_piles' = player_card_up_piles
          /\ player_card_down_piles' = player_card_down_piles ]_vars

\* C12: a turn is played only while two or more down piles are non-empty; a winner is
\* reported only when at most one is, and then it is the player with the non-empty
\* down pile, or a draw when there is none; up piles are not waited for. The last
\* conjunct states the same of is_game_over and get_winning_player_index for every
\* arrangement of empty and non-empty down piles, the one with no card left included.
C12_GameEndAndWinner ==
    LET non_empty == { i \in Players : Len(player_card_down_piles[i]) > 0 }
    IN  /\ pc = "reveal" => Cardinality(non_empty) >= 2
        /\ Cardinality(non_empty) >= 2 => reported.kind = "nothing"
        /\ reported.kind = "won" => non_empty = { reported.winner }
        /\ reported.kind = "draw" => non_empty = {}
        /\ (pc = "done" /\ error = "none" /\ ~interrupted) => reported.kind # "nothing"
        /\ pc = "game_over" =>
           \A down \in [PlayerIds -> { << >>, << new_full_deck[1] >> }] :
              LET left == { i \in PlayerIds : down[i] # << >> }
              IN  /\ is_game_over(down) <=> Cardinality(left) < 2
                  /\ \A i \in left : left = { i } => get_winning_player_index(down) = i
                  /\ left = {} => get_winning_player_index(down) = NoPlayer

\* The game is over and a winner was reported while cards still lie on up piles.
C12_Witness ==
    /\ pc = "done"
    /\ reported.kind = "won"
    /\ \E i \in Players : Len(player_card_up_piles[i]) > 0

\* C13: once the turn loop is left (game over, interruption or exception) the arbiter
\* sends END_GAME to every player, eliminated or not, and then only waits; the wait
\* always ends, and when run has returned every player thread has terminated. An
\* interruption can come at any point of a turn, and it skips the game-over message.
C13_Teardown ==
    /\ []<>(pc \notin { "cleanup", "join" })
    /\ [][ /\ (pc = "cleanup" /\ pc' # "cleanup") =>
               /\ pc' = "join"
               /\ \A i \in Players :
                     turn_queue'[i] =
                        Append(turn_queue[i], ServerMessage("END_GAME", << >>))
           /\ (pc = "join" /\ pc' # "join") => pc' = "done"
           /\ (pc \in LoopPcs /\ interrupted') => pc' = "cleanup" ]_vars
    /\ [](pc = "done" => \A i \in Players : player_pc[i] = "terminated")
    /\ [](interrupted => reported.kind = "nothing")

\* run has returned after an interruption in the middle of a turn, with a player
\* that had been eliminated before.
C13_Witness ==
    /\ pc = "done"
    /\ interrupted
    /\ responses # << >>
    /\ \E i \in Players : out_sent[i] > 0

\* C14: a player that has consumed a TURN consumes nothing more until it has put its
\* decision on the snap_queue; it puts exactly one message there, as the last one,
\* with its own player_id, SNAP when should_call_snap returned true and NO_SNAP when
\* it returned false; a player that is not deciding puts nothing on the snap_queue.
C14_OneDecisionPerTurn ==
    [][ \A i \in Players :
          /\ (player_pc[i] = "waiting" /\ player_pc'[i] = "deciding") =>
                /\ Head(turn_queue[i]).message_type = "TURN"
                /\ turn_queue'[i] = Tail(turn_queue[i])
          /\ player_pc[i] = "deciding" =>
                /\ NothingConsumed(i)
                /\ player_pc'[i] \in { "deciding", "waiting" }
          /\ (player_pc[i] = "deciding" /\ player_pc'[i] = "waiting") =>
                /\ snap_decision'[i] # << >>
                /\ snap_queue' =
                      Append(snap_queue,
                             [player_id |-> i,
                              message_type |-> IF snap_decision'[i][1]
                                               THEN "SNAP" ELSE "NO_SNAP"])
          /\ ~(player_pc[i] = "deciding" /\ player_pc'[i] = "waiting") =>
                SentBy(i)' <= SentBy(i) ]_vars

\* A player has decided not to snap and another to snap, both in the same turn.
C14_Witness ==
    \E i, j \in Players :
       /\ snap_decision[i] = << TRUE >>
       /\ snap_decision[j] = << FALSE >>
       /\ \E k \in 1 .. Len(responses) :
             responses[k] = [player_id |-> i, message_type |-> "SNAP"]
       /\ \E k \in 1 .. Len(snap_queue) :
             snap_queue[k] = [player_id |-> j, message_type |-> "NO_SNAP"]

\* C15: a player thread that has consumed PLAYER_OUT or END_GAME is terminated, and a
\* terminated thread stays so, consumes no further message and sends nothing.
C15_TerminatedStaysSilent ==
    [][ \A i \in Players :
          /\ ( /\ player_pc[i] = "waiting"
               /\ turn_queue[i] # << >>
               /\ Head(turn_queue[i]).message_type \in { "PLAYER_OUT", "END_GAME" }
               /\ turn_queue'[i] = Tail(turn_queue[i]) )
             => player_pc'[i] = "terminated"
          /\ player_pc[i] = "terminated" =>
               /\ player_pc'[i] = "terminated"
               /\ NothingConsumed(i)
               /\ SentBy(i)' <= SentBy(i) ]_vars

\* A terminated player with a TURN waiting in its queue.
C15_Witness ==
    \E i \in Players :
       /\ player_pc[i] = "terminated"
       /\ \E k \in 1 .. Len(turn_queue[i]) : turn_queue[i][k].message_type = "TURN"

\* C16: find_pair returns None exactly when no two cards of the mapping have the
\* same value, so for an empty mapping and for one card; otherwise it returns two
\* ids, the first being the first id of the mapping whose value another id shares
\* and the second the next id with that value.
C16_FindPair ==
    find_pair_result # << >> =>
        LET result == find_pair_result[1]
            ids == DOMAIN find_pair_cards
            same(i) == { j \in ids : j # i /\ find_pair_cards[j].value
                                                = find_pair_cards[i].value }
            shared == { i \in ids : same(i) # {} }
        IN  /\ result = << >> <=> shared = {}
            /\ Cardinality(ids) < 2 => result = << >>
            /\ shared # {} =>
                  /\ Len(result) = 2
                  /\ result[1] \in shared
                  /\ \A i \in shared : result[1] <= i
                  /\ result[2] \in same(result[1])
                  /\ \A j \in same(result[1]) : result[2] <= j
                  /\ result[1] < result[2]

\* find_pair has been called on four cards, three of one value behind a card of the
\* other value, and has returned the first two of the three.
C16_Witness ==
    /\ DOMAIN find_pair_cards = PairIds
    /\ find_pair_cards[0].value # find_pair_cards[1].value
    /\ find_pair_cards[1].value = find_pair_cards[2].value
    /\ find_pair_cards[2].value = find_pair_cards[3].value
    /\ find_pair_result = << << 1, 2 >> >>

C18_StillInGameMonotonic ==
    [][ /\ pc = "start" => \A i \in DOMAIN still_in_game' : still_in_game'[i]
        /\ \A i \in DOMAIN still_in_game : ~still_in_game[i] => ~still_in_game'[i] ]_vars

\* A player's flag is false while the game goes on.
C18_Witness ==
    /\ pc \in LoopPcs
    /\ turn_count >= 2
    /\ \E i \in Players : ~still_in_game[i]

\* C19: when the HumanPlayer gets a TURN and Enter is not hit from then until
\* should_call_snap returns, the message it puts on the snap_queue is NO_SNAP.
C19_HumanTimeout ==
    [][ (human_pc = "deciding" /\ human_pc' = "waiting" /\ ~input_in_window) =>
           snap_queue' = Append(snap_queue, PlayerMessage(human_player_id, "NO_SNAP")) ]_vars

\* C20: when start_game is done all up piles are empty, card number k (0-based) of the
\* shuffled deck lies in the down pile of player k % num_players (the cards of one
\* player in the order they were dealt), the down piles hold nothing else, the
\* shuffled deck has the cards of the merged full decks, and two down piles differ
\* in size by one card at most.
C20_Dealing ==
    (pc = "loop" /\ turn_count = 1) =>
        /\ \A i \in Players : player_card_up_piles[i] = << >>
        /\ \A k \in 0 .. (Len(dealer_cards) - 1) :
              /\ Len(player_card_down_piles[k % num_players]) >= (k \div num_players) + 1
              /\ player_card_down_piles[k % num_players][(k \div num_players) + 1]
                    = dealer_cards[k + 1]
        /\ Len(AllCards(num_players - 1)) = Len(dealer_cards)
        /\ Len(dealer_cards) = Len(new_full_deck) * num_decks
        /\ \A c \in Card : Occurrences(dealer_cards, c) = num_decks
        /\ \A i, j \in Players :
              Len(player_card_down_piles[i]) - Len(player_card_down_piles[j]) <= 1

\* Three players have been dealt the four cards: two, one and one.
C20_Witness ==
    /\ pc = "loop"
    /\ turn_count = 1
    /\ num_players = 3
    /\ Len(player_card_down_piles[0]) = 2
    /\ Len(player_card_down_piles[2]) = 1

\* The cards of the stack before its k-th call.
StackBefore(k) == IF k = 1 THEN stack_start ELSE stack_ops[k - 1].after

\* C21: a stack made by adding new_full_deck() k times to the empty stack has 52 * k
\* cards, and every Card(value, suit) of the two enumerations is in it exactly k
\* times; so a single full deck has 52 cards, all different.
C21_FullDeck ==
    (stack_start = << >> /\ \A k \in 1 .. Len(stack_ops) : stack_ops[k].name = "add") =>
        /\ Cardinality(AllCard) = 52
        /\ Len(card_stack) = 52 * Len(stack_ops)
        /\ \A c \in AllCard : Occurrences(card_stack, c) = Len(stack_ops)
        /\ \A k \in 1 .. Len(card_stack) : card_stack[k] \in AllCard

\* Two full decks have been added to the empty stack.
C21_Witness ==
    /\ stack_start = << >>
    /\ Len(stack_ops) = 2
    /\ \A k \in 1 .. Len(stack_ops) : stack_ops[k].name = "add"
    /\ Len(card_stack) = 104

\* C22: a pop that follows a push returns the card pushed and leaves the cards that
\* were there before the push, in the same order; a peek leaves the stack as it is,
\* returns None on the empty stack without raising, and otherwise returns the card
\* that a pop called next returns.
C22_StackRoundTrip ==
    \A k \in 1 .. Len(stack_ops) :
       /\ (stack_ops[k].name = "push" /\ k < Len(stack_ops) /\ stack_ops[k + 1].name = "pop") =>
             /\ ~stack_ops[k + 1].raised
             /\ stack_ops[k + 1].returned = stack_ops[k].card
             /\ stack_ops[k + 1].after = StackBefore(k)
       /\ stack_ops[k].name = "peek" =>
             /\ stack_ops[k].after = StackBefore(k)
             /\ ~stack_ops[k].raised
             /\ StackBefore(k) = << >> <=> stack_ops[k].returned = NoCard
             /\ (k < Len(stack_ops) /\ stack_ops[k + 1].name = "pop" /\ StackBefore(k) # << >>) =>
                   stack_ops[k + 1].returned = stack_ops[k].returned

\* A card was pushed on a stack of two cards and popped again, and a peek has
\* followed.
C22_Witness ==
    /\ Len(stack_start) = 2
    /\ Len(stack_ops) = 3
    /\ stack_ops[1].name = "push"
    /\ stack_ops[2].name = "pop"
    /\ stack_ops[3].name = "peek"
    /\ stack_ops[1].card # stack_start[2]

\* C23: a player that has been sent PLAYER_OUT has an empty down pile ever after: no
\* resolution accepts its snap or gives it the card of an incorrect snap, and the
\* player reported as winner has never been sent PLAYER_OUT.
C23_EliminatedStaysEmpty ==
    /\ [](\A i \in Players : out_sent[i] > 0 => Len(player_card_down_piles[i]) = 0)
    /\ [](reported.kind = "won" => out_sent[reported.winner] = 0)
    /\ [][ (pc = "resolve" /\ pc' # "resolve") =>
             \A i \in Players :
                out_sent[i] > 0 => (accepted' # i /\ player_to_receive_card' # i) ]_vars

\* The card of an incorrect snap has been given away while another player was
\* already eliminated.
C23_Witness ==
    /\ pc = "mark_out"
    /\ player_to_receive_card # NoPlayer
    /\ \E i \in Players : out_sent[i] > 0

\* C24: when a card is about to be turned over, every player with a non-empty down
\* pile has still_in_game true, so two players or more have; the rotation never
\* divides by zero, and random.choice of an incorrect snap is never given an empty
\* list.
C24_ActivePlayersAtTurnStart ==
    /\ [](pc = "reveal" =>
            /\ \A i \in Players : Len(player_card_down_piles[i]) > 0 => still_in_game[i]
            /\ Cardinality({ i \in Players : still_in_game[i] }) >= 2)
    /\ [](error # "ZeroDivisionError")
    /\ [][ (pc = "resolve" /\ pc' # "resolve") => error' = "none" ]_vars

\* A third turn is about to start with a player whose flag is false.
C24_Witness ==
    /\ pc = "reveal"
    /\ turn_count >= 3
    /\ \E i \in Players : ~still_in_game[i]

\* C25: the snap_queue is empty whenever the arbiter is not collecting, so when TURN
\* is broadcast; and while it collects, no player has more than one message in the
\* snap_queue and the collected responses together.
C25_NoStaleResponses ==
    /\ (pc \in LoopPcs /\ ~Collecting) => snap_queue = << >>
    /\ Collecting => \A i \in Players : SentBy(i) <= 1

\* The second TURN is about to be broadcast, after a turn in which every player
\* responded.
C25_Witness ==
    /\ pc = "broadcast"
    /\ turn_count = 2
    /\ Len(responses) = num_players

\* C26: no player is sent PLAYER_OUT more than once.
C26_PlayerOutOnce == \A i \in Players : out_sent[i] <= 1

\* mark_players_out has run again after a player was sent PLAYER_OUT in an earlier
\* turn: that player neither drew nor snapped in this turn.
C26_Witness ==
    /\ pc = "incr"
    /\ \E i \in Players :
          /\ out_sent[i] = 1
          /\ i # drawn_by
          /\ i # accepted

\* The number of cards on the down piles of the players 0 .. upto.
RECURSIVE DownTotal(_)
DownTotal(upto) ==
    IF upto < 0 THEN 0 ELSE DownTotal(upto - 1) + Len(player_card_down_piles[upto])

\* C27: when no player ever sends SNAP, every turn played leaves one card less on the
\* down piles and one more on the up piles, and the game is over after as many turns
\* as the merged deck has cards, at most.
C27_TerminatesWithoutSnaps ==
    /\ [](pc = "loop" =>
            /\ DownTotal(num_players - 1) = Len(dealer_cards) - (turn_count - 1)
            /\ Len(AllCards(num_players - 1)) = Len(dealer_cards))
    /\ [](pc = "game_over" => turn_count - 1 <= Len(new_full_deck) * num_decks)
    /\ <>(pc = "game_over")

====
